---- MODULE Spec2Model ----
(***************************************************************************)
(* Model of pwcp/hooks.py: the import hooks that route files with the      *)
(* special extension through the preprocessor, the cache of preprocessed   *)
(* text used for diagnostics, and the idempotent installation.             *)
(***************************************************************************)
EXTENDS Integers, Sequences, FiniteSets, TLC

\* ------------------------------------------------------------------ bounds
MaxInstalls == 2    \* install() calls in one run
MaxPathLen  == 2    \* entries of the search path handed to find_spec
MaxLineno   == 3    \* largest line number a reported error carries
MaxFrames   == 3    \* frames of a traceback
NumThreads  == 2    \* threads that call install()

\* ------------------------------------------------------------ the universe
None   == "None"
NoCwd  == "NoCwd"           \* getcwd() raises FileNotFoundError

Dirs    == {"app"}          \* directories that can be on the search path
NonDirs == {"arc.zip"}      \* search path entries the FileFinder hook declines
Entries == Dirs \cup NonDirs \cup {""}

\* The one module name looked up; its special-extension file in directory d.
FileOf(d) == <<d, "mod.ppy">>
Paths     == {FileOf(d) : d \in Dirs}

\* Source text is a sequence of characters: "m" stands for a macro use,
\* "a" for plain code, "#" for a directive the preprocessor rejects.
RawTexts == { << >>, <<"m">>, <<"a", "\n", "m">>, <<"#">> }

\* ------------------------------------------------------------- str methods
RECURSIVE splitlines(_)
\* str.splitlines(): the lines without their line ends, no trailing empty line
splitlines(s) ==
    IF s = <<>> THEN <<>>
    ELSE LET nl == { i \in 1..Len(s) : s[i] = "\n" } IN
         IF nl = {} THEN << s >>
         ELSE LET k == CHOOSE i \in nl : \A j \in nl : i <= j IN
              << SubSeq(s, 1, k - 1) >> \o splitlines(SubSeq(s, k + 1, Len(s)))

RECURSIVE keepends(_)
\* the lines of s, each with its line end; the last one is given a line end
keepends(s) ==
    IF s = <<>> THEN <<>>
    ELSE LET nl == { i \in 1..Len(s) : s[i] = "\n" } IN
         IF nl = {} THEN << s \o <<"\n">> >>
         ELSE LET k == CHOOSE i \in nl : \A j \in nl : i <= j IN
              << SubSeq(s, 1, k) >> \o keepends(SubSeq(s, k + 1, Len(s)))

\* linecache.getlines of the host: the lines of the file on disk, line ends
\* kept, and the empty list for a file that cannot be read
getlines(files, filename) ==
    IF filename \in DOMAIN files THEN keepends(files[filename]) ELSE <<>>

\* the truth value of config.get(key): a missing key gives None, which is false
ConfigGet(config, key) == key \in DOMAIN config /\ config[key] = TRUE

\* ------------------------------------------------------------ preprocessor
RECURSIVE expand(_, _)
expand(s, body) ==
    IF s = <<>> THEN <<>>
    ELSE (IF Head(s) = "m" THEN body ELSE << Head(s) >>) \o expand(Tail(s), body)

\* preprocess(path, config): reads the file and rewrites it; raises when the
\* file is missing or holds a directive it rejects.  The option "wide" is a
\* pass-through option that changes the expansion of a macro.
preprocess(files, path, config) ==
    IF path \notin DOMAIN files THEN [raised |-> TRUE, exc |-> "FileNotFoundError"]
    ELSE IF \E i \in 1..Len(files[path]) : files[path][i] = "#"
    THEN [raised |-> TRUE, exc |-> "PreprocessorError"]
    ELSE [raised |-> FALSE,
          text |-> expand(files[path],
                          IF ConfigGet(config, "wide")
                          THEN <<"b", "\n", "b">> ELSE <<"b">>)]

\* ---------------------------------------------------------- configurations
EmptyConfig == << >>          \* Configurable._config = {}
Configs == { EmptyConfig,
             [prefer_python |-> TRUE],
             [prefer_python |-> FALSE, wide |-> TRUE] }

RECURSIVE SeqsUpTo(_, _)
SeqsUpTo(S, n) ==
    IF n = 0 THEN { << >> }
    ELSE LET shorter == SeqsUpTo(S, n - 1) IN
         shorter \cup { Append(q, x) : q \in shorter, x \in S }

SearchPaths == SeqsUpTo(Entries, MaxPathLen)

\* ------------------------------------------------------------------- state
VARIABLES
    meta_path,               \* sys.meta_path
    sys_path_importer_cache, \* sys.path_importer_cache (keys)
    path_hooks,              \* hooks._path_hooks
    path_importer_cache,     \* hooks._path_importer_cache
    preprocessed_files,      \* hooks.preprocessed_files
    PPyLoader_config,        \* PPyLoader._config
    PPyPathFinder_config,    \* PPyPathFinder._config
    done,                    \* the flag closed over by install
    linecache_getlines,      \* what linecache.getlines is bound to
    disk,                    \* the special-extension files on disk and their content
    cwd,                     \* the working directory, or NoCwd
    ret,                     \* the last call and what it returned
    installs,                \* number of install() calls made
    last_config,             \* the configuration of the latest install() call
    native_resp,             \* what each native finder does when asked for the module
    search_path,             \* the search path find_spec is handed (sys.path)
    loaded,                  \* paths get_data was called for
    loaded_ok,               \* paths get_data returned for without raising
    requested,               \* paths whose lines were asked of patched_getlines
    threads                  \* where each thread is in install, and its config

vars == << meta_path, sys_path_importer_cache, path_hooks, path_importer_cache,
           preprocessed_files, PPyLoader_config, PPyPathFinder_config, done,
           linecache_getlines, disk, cwd, ret, installs, last_config,
           native_resp, search_path, loaded, loaded_ok, requested, threads >>

\* the threads, none of them inside install
Threads == 1..NumThreads
Idle == [t \in Threads |-> [pc |-> "idle", config |-> << >>]]

NativeFinders == << "BuiltinImporter", "PathFinder" >>
OtherFinders == { NativeFinders[i] : i \in 1..Len(NativeFinders) }

PPyHook == "FileFinder.path_hook(LOADER_DETAILS)"

Init ==
    /\ meta_path = NativeFinders
    /\ sys_path_importer_cache = Dirs
    /\ path_hooks = << >>
    /\ path_importer_cache = << >>
    /\ preprocessed_files = << >>
    /\ PPyLoader_config = EmptyConfig
    /\ PPyPathFinder_config = EmptyConfig
    /\ done = FALSE
    /\ linecache_getlines = "getlines"
    /\ disk = [p \in Paths |-> <<"m">>]
    /\ cwd = "app"
    /\ ret = [op |-> "init"]
    /\ installs = 0
    /\ last_config = EmptyConfig
    /\ native_resp = [f \in OtherFinders |-> "none"]
    /\ search_path = << >>
    /\ loaded = {}
    /\ loaded_ok = {}
    /\ requested = {}
    /\ threads = Idle

\* ----------------------------------------------------------------- helpers
\* d[k] = v for a dict held as a function
DictSet(d, k, v) == [x \in DOMAIN d \cup {k} |-> IF x = k THEN v ELSE d[x]]

Count(seq, x) == Cardinality({ i \in 1..Len(seq) : seq[i] = x })

\* --------------------------------------------------------- directory finders
\* a value of _path_importer_cache: None, or a FileFinder for a directory;
\* listed tells whether the FileFinder holds a listing of its directory
NoFinder == [kind |-> None, path |-> "", listed |-> FALSE]
FileFinder(path) == [kind |-> "FileFinder", path |-> path, listed |-> FALSE]

\* the hook made by FileFinder.path_hook raises ImportError unless the path
\* is a directory
HookDeclines(hook, path) == path \notin Dirs

RECURSIVE PPyPathFinder_path_hooks(_, _)
PPyPathFinder_path_hooks(hooks, path) ==
    IF hooks = << >> THEN NoFinder
    ELSE IF HookDeclines(Head(hooks), path)
         THEN PPyPathFinder_path_hooks(Tail(hooks), path)
         ELSE FileFinder(path)

\* the lookup with the failure of getcwd() stored under the empty key
path_importer_cache_failure_cached(cache, hooks, wd, path) ==
    IF path \in DOMAIN cache
    THEN [finder |-> cache[path], cache |-> cache, key |-> path, hooked |-> FALSE]
    ELSE IF path = "" /\ wd = NoCwd
    THEN [finder |-> NoFinder, cache |-> DictSet(cache, path, NoFinder),
          key |-> path, hooked |-> FALSE]
    ELSE LET key == IF path = "" THEN wd ELSE path IN
         IF key \in DOMAIN cache
         THEN [finder |-> cache[key], cache |-> cache, key |-> key,
               hooked |-> FALSE]
         ELSE LET finder == PPyPathFinder_path_hooks(hooks, key) IN
              [finder |-> finder, cache |-> DictSet(cache, key, finder),
               key |-> key, hooked |-> TRUE]

\* the lookup with the path hooks consulted on every call
path_importer_cache_unmemoized(cache, hooks, wd, path) ==
    IF path = "" /\ wd = NoCwd
    THEN [finder |-> NoFinder, cache |-> cache, key |-> path, hooked |-> FALSE]
    ELSE LET key == IF path = "" THEN wd ELSE path
             finder == PPyPathFinder_path_hooks(hooks, key) IN
         [finder |-> finder, cache |-> DictSet(cache, key, finder),
          key |-> key, hooked |-> TRUE]

\* PPyPathFinder._path_importer_cache(path): the finder returned, the cache
\* it leaves, and whether the path hooks were consulted
PPyPathFinder_path_importer_cache(cache, hooks, wd, path) ==
    IF path = "" /\ wd = NoCwd
    THEN [finder |-> NoFinder, cache |-> cache, key |-> path, hooked |-> FALSE]
    ELSE LET key == IF path = "" THEN wd ELSE path IN
         IF key \in DOMAIN cache
         THEN [finder |-> cache[key], cache |-> cache, key |-> key,
               hooked |-> FALSE]
         ELSE LET finder == PPyPathFinder_path_hooks(hooks, key) IN
              [finder |-> finder, cache |-> DictSet(cache, key, finder),
               key |-> key, hooked |-> TRUE]

\* ------------------------------------------------------------ installation
\* Configurable.set_config applied to one class attribute
set_config(config) == config

\* importlib.invalidate_caches() as far as this module's state goes: it calls
\* invalidate_caches() of every finder on sys.meta_path, PPyPathFinder among
\* them, which passes it on to every memoized directory finder
FinderInvalidated(finder) ==
    IF finder.kind = None THEN finder ELSE [finder EXCEPT !.listed = FALSE]

\* an invalidation that empties the cache
invalidate_caches_clearing(cache) == << >>

PPyPathFinder_invalidate_caches(cache) ==
    [k \in DOMAIN cache |-> FinderInvalidated(cache[k])]

\* the wiring with the finder put at the end of sys.meta_path
install_wiring_appending ==
    /\ meta_path' = Append(meta_path, "PPyPathFinder")
    /\ path_hooks' = Append(path_hooks, PPyHook)
    /\ sys_path_importer_cache' = {}
    /\ path_importer_cache' = PPyPathFinder_invalidate_caches(path_importer_cache)
    /\ linecache_getlines' = "patched_getlines"
    /\ done' = TRUE

\* the wiring with the flag left unset
install_wiring_flag_unset ==
    /\ meta_path' = << "PPyPathFinder" >> \o meta_path
    /\ path_hooks' = Append(path_hooks, PPyHook)
    /\ sys_path_importer_cache' = {}
    /\ path_importer_cache' = PPyPathFinder_invalidate_caches(path_importer_cache)
    /\ linecache_getlines' = "patched_getlines"
    /\ done' = FALSE

\* the one-time wiring of install, from the insertion of the finder to the
\* setting of the flag
install_wiring ==
    /\ meta_path' = << "PPyPathFinder" >> \o meta_path
    /\ path_hooks' = Append(path_hooks, PPyHook)
    /\ sys_path_importer_cache' = {}
    /\ path_importer_cache' = PPyPathFinder_invalidate_caches(path_importer_cache)
    /\ linecache_getlines' = "patched_getlines"
    /\ done' = TRUE

\* install with the test of the flag placed ahead of the two set_config calls
install_gate_first(config) ==
    /\ installs < MaxInstalls
    /\ installs' = installs + 1
    /\ IF done
       THEN UNCHANGED << meta_path, path_hooks, sys_path_importer_cache,
                         path_importer_cache, linecache_getlines, done,
                         PPyLoader_config, PPyPathFinder_config >>
       ELSE /\ PPyLoader_config' = set_config(config)
            /\ PPyPathFinder_config' = set_config(config)
            /\ install_wiring
    /\ last_config' = config
    /\ ret' = [op |-> "install", config |-> config]
    /\ UNCHANGED << preprocessed_files, disk, cwd, native_resp, search_path,
                    loaded, loaded_ok, requested >>
    /\ UNCHANGED threads

install(config) ==
    /\ installs < MaxInstalls
    /\ installs' = installs + 1
    /\ PPyLoader_config' = set_config(config)
    /\ PPyPathFinder_config' = set_config(config)
    /\ IF done
       THEN UNCHANGED << meta_path, path_hooks, sys_path_importer_cache,
                         path_importer_cache, linecache_getlines, done >>
       ELSE install_wiring
    /\ last_config' = config
    /\ ret' = [op |-> "install", config |-> config]
    /\ UNCHANGED << preprocessed_files, disk, cwd, native_resp, search_path,
                    loaded, loaded_ok, requested >>
    /\ UNCHANGED threads

\* ------------------------------------------------------------------ loader
\* str.encode(): the bytes of a text, told apart from the text itself
encode(text) == [bytes |-> text]

\* get_data that drops the entry of the path when the preprocessor raises
get_data_dropping(path) ==
    LET r == preprocess(disk, path, PPyLoader_config) IN
    /\ loaded' = loaded \cup {path}
    /\ IF r.raised
       THEN /\ preprocessed_files' =
                   [p \in DOMAIN preprocessed_files \ {path} |->
                        preprocessed_files[p]]
            /\ UNCHANGED loaded_ok
            /\ ret' = [op |-> "get_data", path |-> path, raised |-> TRUE,
                       exc |-> r.exc, data |-> << >>,
                       config |-> PPyLoader_config,
                       before |-> preprocessed_files]
       ELSE /\ preprocessed_files' = DictSet(preprocessed_files, path, r.text)
            /\ loaded_ok' = loaded_ok \cup {path}
            /\ ret' = [op |-> "get_data", path |-> path, raised |-> FALSE,
                       exc |-> None, data |-> encode(r.text),
                       config |-> PPyLoader_config,
                       before |-> preprocessed_files]
    /\ UNCHANGED << meta_path, sys_path_importer_cache, path_hooks,
                    path_importer_cache, PPyLoader_config, PPyPathFinder_config,
                    done, linecache_getlines, disk, cwd, installs, last_config,
                    native_resp, search_path, requested >>
    /\ UNCHANGED threads

\* get_data that keeps the entry of an earlier load of the path
get_data_reuse(path) ==
    LET r == IF path \in DOMAIN preprocessed_files
             THEN [raised |-> FALSE, text |-> preprocessed_files[path]]
             ELSE preprocess(disk, path, PPyLoader_config) IN
    /\ loaded' = loaded \cup {path}
    /\ IF r.raised
       THEN /\ UNCHANGED << preprocessed_files, loaded_ok >>
            /\ ret' = [op |-> "get_data", path |-> path, raised |-> TRUE,
                       exc |-> r.exc, data |-> << >>,
                       config |-> PPyLoader_config,
                       before |-> preprocessed_files]
       ELSE /\ preprocessed_files' = DictSet(preprocessed_files, path, r.text)
            /\ loaded_ok' = loaded_ok \cup {path}
            /\ ret' = [op |-> "get_data", path |-> path, raised |-> FALSE,
                       exc |-> None, data |-> encode(r.text),
                       config |-> PPyLoader_config,
                       before |-> preprocessed_files]
    /\ UNCHANGED << meta_path, sys_path_importer_cache, path_hooks,
                    path_importer_cache, PPyLoader_config, PPyPathFinder_config,
                    done, linecache_getlines, disk, cwd, installs, last_config,
                    native_resp, search_path, requested >>
    /\ UNCHANGED threads

\* PPyLoader(fullname, path).get_data(filename)
get_data(path) ==
    LET r == preprocess(disk, path, PPyLoader_config) IN
    /\ loaded' = loaded \cup {path}
    /\ IF r.raised
       THEN /\ UNCHANGED << preprocessed_files, loaded_ok >>
            /\ ret' = [op |-> "get_data", path |-> path, raised |-> TRUE,
                       exc |-> r.exc, data |-> << >>,
                       config |-> PPyLoader_config,
                       before |-> preprocessed_files]
       ELSE /\ preprocessed_files' = DictSet(preprocessed_files, path, r.text)
            /\ loaded_ok' = loaded_ok \cup {path}
            /\ ret' = [op |-> "get_data", path |-> path, raised |-> FALSE,
                       exc |-> None, data |-> encode(r.text),
                       config |-> PPyLoader_config,
                       before |-> preprocessed_files]
    /\ UNCHANGED << meta_path, sys_path_importer_cache, path_hooks,
                    path_importer_cache, PPyLoader_config, PPyPathFinder_config,
                    done, linecache_getlines, disk, cwd, installs, last_config,
                    native_resp, search_path, requested >>
    /\ UNCHANGED threads

\* the file system changes under the running process
WriteFile(path, content) ==
    /\ IF path \in DOMAIN disk THEN disk[path] # content ELSE TRUE
    /\ disk' = DictSet(disk, path, content)
    /\ ret' = [op |-> "WriteFile", path |-> path]
    /\ UNCHANGED << meta_path, sys_path_importer_cache, path_hooks,
                    path_importer_cache, preprocessed_files, PPyLoader_config,
                    PPyPathFinder_config, done, linecache_getlines, cwd,
                    installs, last_config, native_resp, search_path, loaded,
                    loaded_ok, requested >>
    /\ UNCHANGED threads

RemoveFile(path) ==
    /\ path \in DOMAIN disk
    /\ disk' = [p \in DOMAIN disk \ {path} |-> disk[p]]
    /\ ret' = [op |-> "RemoveFile", path |-> path]
    /\ UNCHANGED << meta_path, sys_path_importer_cache, path_hooks,
                    path_importer_cache, preprocessed_files, PPyLoader_config,
                    PPyPathFinder_config, done, linecache_getlines, cwd,
                    installs, last_config, native_resp, search_path, loaded,
                    loaded_ok, requested >>
    /\ UNCHANGED threads

\* -------------------------------------------------------------- diagnostics
\* the lookup with the entry tested for truth instead of membership
patched_getlines_truthy(files, cache, filename) ==
    IF filename \in DOMAIN cache /\ cache[filename] # << >>
    THEN splitlines(cache[filename])
    ELSE getlines(files, filename)

patched_getlines_value(files, cache, filename) ==
    IF filename \in DOMAIN cache
    THEN splitlines(cache[filename])
    ELSE getlines(files, filename)

\* a line reader that records what it read in preprocessed_files
patched_getlines_storing(filename) ==
    /\ requested' = requested \cup {filename}
    /\ preprocessed_files' =
           IF filename \in DOMAIN preprocessed_files \/ filename \notin DOMAIN disk
           THEN preprocessed_files
           ELSE DictSet(preprocessed_files, filename, disk[filename])
    /\ ret' = [op |-> "patched_getlines", path |-> filename,
               lines |-> patched_getlines_value(disk, preprocessed_files, filename)]
    /\ UNCHANGED << meta_path, sys_path_importer_cache, path_hooks,
                    path_importer_cache, PPyLoader_config,
                    PPyPathFinder_config, done, linecache_getlines, disk, cwd,
                    installs, last_config, native_resp, search_path, loaded,
                    loaded_ok >>
    /\ UNCHANGED threads

patched_getlines(filename) ==
    /\ requested' = requested \cup {filename}
    /\ ret' = [op |-> "patched_getlines", path |-> filename,
               lines |-> patched_getlines_value(disk, preprocessed_files, filename)]
    /\ UNCHANGED << meta_path, sys_path_importer_cache, path_hooks,
                    path_importer_cache, preprocessed_files, PPyLoader_config,
                    PPyPathFinder_config, done, linecache_getlines, disk, cwd,
                    installs, last_config, native_resp, search_path, loaded,
                    loaded_ok >>
    /\ UNCHANGED threads

\* --------------------------------------------------- uncaught-error handler
EntryFile    == "main.ppy"               \* module.__file__ of the entry module
InternalFile == "importlib/_bootstrap"   \* a frame of the loading machinery
FrameFiles   == { EntryFile, InternalFile }
OtherFile    == << "app", "plain.py" >>  \* a file that is never preprocessed
OrigText     == << "r", "a", "w" >>      \* e.text as the error arrives

\* the errors handed to the handler: e.lineno is None when has_lineno is FALSE
Errors ==
    { [syntax |-> FALSE, filename |-> OtherFile, has_lineno |-> FALSE, lineno |-> 0] }
    \cup [syntax : {TRUE}, filename : Paths \cup {OtherFile},
          has_lineno : {FALSE}, lineno : {0}]
    \cup [syntax : {TRUE}, filename : Paths \cup {OtherFile},
          has_lineno : {TRUE}, lineno : 0..MaxLineno]

\* a traceback is the sequence of the files of its frames, outermost first
Tracebacks == SeqsUpTo(FrameFiles, MaxFrames)

\* lines[index] of Python: a negative index counts from the end
ListIndex(lines, index) ==
    IF index >= 0 /\ index < Len(lines) THEN [raised |-> FALSE, item |-> lines[index + 1]]
    ELSE IF index < 0 /\ index >= -Len(lines)
         THEN [raised |-> FALSE, item |-> lines[Len(lines) + index + 1]]
         ELSE [raised |-> TRUE, item |-> << >>]

\* the replacement with e.lineno taken as an index from zero
replace_text_zero_based(cache, e) ==
    IF e.syntax /\ e.filename \in DOMAIN cache /\ cache[e.filename] # << >>
    THEN IF ~e.has_lineno THEN [raised |-> TRUE, exc |-> "TypeError", text |-> OrigText]
         ELSE LET line == ListIndex(splitlines(cache[e.filename]), e.lineno) IN
              IF line.raised
              THEN [raised |-> TRUE, exc |-> "IndexError", text |-> OrigText]
              ELSE [raised |-> FALSE, exc |-> None, text |-> line.item]
    ELSE [raised |-> FALSE, exc |-> None, text |-> OrigText]

\* the first if of handle_exc: the text the error carries afterwards
replace_text(cache, e) ==
    IF e.syntax /\ e.filename \in DOMAIN cache /\ cache[e.filename] # << >>
    THEN IF ~e.has_lineno THEN [raised |-> TRUE, exc |-> "TypeError", text |-> OrigText]
         ELSE LET line == ListIndex(splitlines(cache[e.filename]), e.lineno - 1) IN
              IF line.raised
              THEN [raised |-> TRUE, exc |-> "IndexError", text |-> OrigText]
              ELSE [raised |-> FALSE, exc |-> None, text |-> line.item]
    ELSE [raised |-> FALSE, exc |-> None, text |-> OrigText]

RECURSIVE trim_past_entry_frame(_, _)
\* a trimming that also drops the first frame of the entry module
trim_past_entry_frame(tb, module) ==
    IF tb = << >> \/ module = None THEN tb
    ELSE IF Head(tb) # module
         THEN trim_past_entry_frame(Tail(tb), module)
         ELSE Tail(tb)

RECURSIVE trim_every_foreign_frame(_, _)
\* a trimming that drops the frames of other files wherever they are
trim_every_foreign_frame(tb, module) ==
    IF tb = << >> \/ module = None THEN tb
    ELSE IF Head(tb) # module
         THEN trim_every_foreign_frame(Tail(tb), module)
         ELSE << Head(tb) >> \o trim_every_foreign_frame(Tail(tb), module)

RECURSIVE trim_traceback(_, _)
\* the while loop of handle_exc
trim_traceback(tb, module) ==
    IF tb # << >> /\ module # None /\ Head(tb) # module
    THEN trim_traceback(Tail(tb), module)
    ELSE tb

\* handle_exc(e_type, e, tb) of create_exception_handler(module)
handle_exc(module, e, tb) ==
    LET r == replace_text(preprocessed_files, e) IN
    /\ ret' = IF r.raised
              THEN [op |-> "handle_exc", module |-> module, e |-> e, tb |-> tb,
                    raised |-> TRUE, exc |-> r.exc, printed |-> FALSE,
                    text |-> r.text, trace |-> << >>]
              ELSE [op |-> "handle_exc", module |-> module, e |-> e, tb |-> tb,
                    raised |-> FALSE, exc |-> None, printed |-> TRUE,
                    text |-> r.text, trace |-> trim_traceback(tb, module)]
    /\ UNCHANGED << meta_path, sys_path_importer_cache, path_hooks,
                    path_importer_cache, preprocessed_files, PPyLoader_config,
                    PPyPathFinder_config, done, linecache_getlines, disk, cwd,
                    installs, last_config, native_resp, search_path, loaded,
                    loaded_ok, requested >>
    /\ UNCHANGED threads

\* ---------------------------------------------------------------- resolver
\* a loadable unit (ModuleSpec), or NoSpec for None
NoSpec == [kind |-> None, origin |-> "", loader |-> FALSE]
NativeSpec(finder, loader) == [kind |-> "native", origin |-> finder, loader |-> loader]
PPySpec(dir) == [kind |-> "ppy", origin |-> dir, loader |-> TRUE]

\* What a finder other than PPyPathFinder does when asked for the module:
\*   spec            find_spec returns a unit with a loader
\*   spec_noloader   find_spec returns a unit whose loader is None
\*   none            find_spec returns None
\*   legacy_loader   find_spec raises AttributeError, find_module returns a loader
\*   legacy_none     find_spec raises AttributeError, find_module returns None
\*   legacy_missing  find_spec and find_module both raise AttributeError
\*   error           find_spec raises ImportError
Responses == { "spec", "spec_noloader", "none", "legacy_loader", "legacy_none",
               "legacy_missing", "error" }

RECURSIVE fallback_loop_any_spec(_, _, _)
\* the loop with the test of the loader left out of the return condition
fallback_loop_any_spec(finders, resp, spec) ==
    IF finders = << >>
    THEN [raised |-> FALSE, exc |-> None, spec |-> NoSpec, asked |-> << >>]
    ELSE LET finder == Head(finders) IN
         IF finder = "PPyPathFinder"
         THEN fallback_loop_any_spec(Tail(finders), resp, spec)
         ELSE IF resp[finder] = "error"
         THEN [raised |-> TRUE, exc |-> "ImportError", spec |-> NoSpec,
               asked |-> << finder >>]
         ELSE IF resp[finder] = "legacy_missing"
         THEN [raised |-> TRUE, exc |-> "AttributeError", spec |-> NoSpec,
               asked |-> << finder >>]
         ELSE LET spec2 ==
                  CASE resp[finder] = "spec"          -> NativeSpec(finder, TRUE)
                    [] resp[finder] = "spec_noloader" -> NativeSpec(finder, FALSE)
                    [] resp[finder] = "none"          -> NoSpec
                    [] resp[finder] = "legacy_loader" -> NativeSpec(finder, TRUE)
                    [] resp[finder] = "legacy_none"   -> spec
              IN IF spec2.kind # None
                 THEN [raised |-> FALSE, exc |-> None, spec |-> spec2,
                       asked |-> << finder >>]
                 ELSE LET rest == fallback_loop_any_spec(Tail(finders), resp, spec2)
                      IN [rest EXCEPT !.asked = << finder >> \o @]

RECURSIVE fallback_loop(_, _, _)
\* the for loop of find_spec_fallback over the rest of sys.meta_path, spec
\* being the value the variable holds when the iteration starts; asked lists
\* the finders whose find_spec was called, in the order of the calls
fallback_loop(finders, resp, spec) ==
    IF finders = << >>
    THEN [raised |-> FALSE, exc |-> None, spec |-> NoSpec, asked |-> << >>]
    ELSE LET finder == Head(finders) IN
         IF finder = "PPyPathFinder"
         THEN fallback_loop(Tail(finders), resp, spec)
         ELSE IF resp[finder] = "error"
         THEN [raised |-> TRUE, exc |-> "ImportError", spec |-> NoSpec,
               asked |-> << finder >>]
         ELSE IF resp[finder] = "legacy_missing"
         THEN [raised |-> TRUE, exc |-> "AttributeError", spec |-> NoSpec,
               asked |-> << finder >>]
         ELSE LET spec2 ==
                  CASE resp[finder] = "spec"          -> NativeSpec(finder, TRUE)
                    [] resp[finder] = "spec_noloader" -> NativeSpec(finder, FALSE)
                    [] resp[finder] = "none"          -> NoSpec
                    [] resp[finder] = "legacy_loader" -> NativeSpec(finder, TRUE)
                    [] resp[finder] = "legacy_none"   -> spec
              IN IF spec2.kind # None /\ spec2.loader
                 THEN [raised |-> FALSE, exc |-> None, spec |-> spec2,
                       asked |-> << finder >>]
                 ELSE LET rest == fallback_loop(Tail(finders), resp, spec2)
                      IN [rest EXCEPT !.asked = << finder >> \o @]

find_spec_fallback(finders, resp) == fallback_loop(finders, resp, NoSpec)

RECURSIVE PathFinder_get_spec(_, _, _, _, _)
\* PathFinder._get_spec as inherited by PPyPathFinder: the first entry of the
\* search path whose directory finder finds the special-extension file
PathFinder_get_spec(path, cache, hooks, wd, files) ==
    IF path = << >> THEN [spec |-> NoSpec, cache |-> cache]
    ELSE LET r == PPyPathFinder_path_importer_cache(cache, hooks, wd, Head(path)) IN
         IF r.finder.kind = None
         THEN PathFinder_get_spec(Tail(path), r.cache, hooks, wd, files)
         ELSE LET cache2 == [r.cache EXCEPT ![r.key].listed = TRUE] IN
              IF FileOf(r.finder.path) \in DOMAIN files
              THEN [spec |-> PPySpec(r.finder.path), cache |-> cache2]
              ELSE PathFinder_get_spec(Tail(path), cache2, hooks, wd, files)

\* find_spec_fallback is not called: prefer_python is not set
NoFallback == [raised |-> FALSE, exc |-> None, spec |-> NoSpec, asked |-> << >>]

\* find_spec with the special-extension search tried ahead of the fallback
find_spec_own_first(config, finders, resp, path, cache, hooks, wd, files) ==
    LET fb == IF ConfigGet(config, "prefer_python")
              THEN find_spec_fallback(finders, resp)
              ELSE NoFallback
        own == PathFinder_get_spec(path, cache, hooks, wd, files)
    IN IF own.spec.kind # None /\ own.spec.loader
       THEN [raised |-> FALSE, exc |-> None, spec |-> own.spec,
             cache |-> own.cache, fallback |-> fb]
       ELSE [raised |-> fb.raised, exc |-> fb.exc, spec |-> fb.spec,
             cache |-> own.cache, fallback |-> fb]

\* PPyPathFinder.find_spec(fullname, path, target)
PPyPathFinder_find_spec_value(config, finders, resp, path, cache, hooks, wd, files) ==
    LET fb == IF ConfigGet(config, "prefer_python")
              THEN find_spec_fallback(finders, resp)
              ELSE NoFallback
        own == PathFinder_get_spec(path, cache, hooks, wd, files)
    IN IF fb.raised
       THEN [raised |-> TRUE, exc |-> fb.exc, spec |-> NoSpec, cache |-> cache,
             fallback |-> fb]
       ELSE IF fb.spec.kind # None
       THEN [raised |-> FALSE, exc |-> None, spec |-> fb.spec, cache |-> cache,
             fallback |-> fb]
       ELSE [raised |-> FALSE, exc |-> None,
             spec |-> IF own.spec.kind # None /\ own.spec.loader
                      THEN own.spec ELSE NoSpec,
             cache |-> own.cache, fallback |-> fb]

PPyPathFinder_find_spec ==
    LET r == PPyPathFinder_find_spec_value(PPyPathFinder_config, meta_path,
                 native_resp, search_path, path_importer_cache, path_hooks,
                 cwd, disk) IN
    /\ path_importer_cache' = r.cache
    /\ ret' = [op |-> "find_spec", raised |-> r.raised, exc |-> r.exc,
               spec |-> r.spec, fallback |-> r.fallback,
               prefer_python |-> ConfigGet(PPyPathFinder_config, "prefer_python")]
    /\ UNCHANGED << meta_path, sys_path_importer_cache, path_hooks,
                    preprocessed_files, PPyLoader_config, PPyPathFinder_config,
                    done, linecache_getlines, disk, cwd, installs, last_config,
                    native_resp, search_path, loaded, loaded_ok,
                    requested >>
    /\ UNCHANGED threads

\* a direct call of PPyPathFinder._path_importer_cache(path)
path_importer_cache_lookup(path) ==
    LET r == PPyPathFinder_path_importer_cache(path_importer_cache, path_hooks,
                                               cwd, path) IN
    /\ path_importer_cache' = r.cache
    /\ ret' = [op |-> "_path_importer_cache", path |-> path,
               finder |-> r.finder, hooked |-> r.hooked]
    /\ UNCHANGED << meta_path, sys_path_importer_cache, path_hooks,
                    preprocessed_files, PPyLoader_config, PPyPathFinder_config,
                    done, linecache_getlines, disk, cwd, installs, last_config,
                    native_resp, search_path, loaded, loaded_ok,
                    requested >>
    /\ UNCHANGED threads

\* an invalidation that also drops the preprocessed texts
invalidate_caches_dropping_texts ==
    /\ path_importer_cache' = PPyPathFinder_invalidate_caches(path_importer_cache)
    /\ preprocessed_files' = << >>
    /\ ret' = [op |-> "invalidate_caches"]
    /\ UNCHANGED << meta_path, sys_path_importer_cache, path_hooks,
                    PPyLoader_config, PPyPathFinder_config,
                    done, linecache_getlines, disk, cwd, installs, last_config,
                    native_resp, search_path, loaded, loaded_ok, requested >>
    /\ UNCHANGED threads

\* PPyPathFinder.invalidate_caches()
invalidate_caches ==
    /\ path_importer_cache' = PPyPathFinder_invalidate_caches(path_importer_cache)
    /\ ret' = [op |-> "invalidate_caches"]
    /\ UNCHANGED << meta_path, sys_path_importer_cache, path_hooks,
                    preprocessed_files, PPyLoader_config, PPyPathFinder_config,
                    done, linecache_getlines, disk, cwd, installs, last_config,
                    native_resp, search_path, loaded, loaded_ok,
                    requested >>
    /\ UNCHANGED threads

\* the working directory is changed, or removed under the process
chdir(wd) ==
    /\ cwd # wd
    /\ cwd' = wd
    /\ ret' = [op |-> "chdir"]
    /\ UNCHANGED << meta_path, sys_path_importer_cache, path_hooks,
                    path_importer_cache, preprocessed_files, PPyLoader_config,
                    PPyPathFinder_config, done, linecache_getlines, disk,
                    installs, last_config, native_resp, search_path, loaded,
                    loaded_ok, requested >>
    /\ UNCHANGED threads

Next ==
    \/ \E config \in Configs : install(config)
    \/ \E path \in Paths : get_data(path)
    \/ \E path \in Paths, content \in RawTexts : WriteFile(path, content)
    \/ \E path \in Paths : RemoveFile(path)
    \/ \E path \in Paths : patched_getlines(path)
    \/ \E path \in Entries : path_importer_cache_lookup(path)
    \/ invalidate_caches
    \/ \E wd \in Dirs \cup {NoCwd} : chdir(wd)

Spec == Init /\ [][Next]_vars

\* ----------------------------------------------- the resolver under lookups
\* The module is looked up again and again while configurations are installed
\* and the special-extension file comes and goes; what the native finders
\* answer and the search path are fixed for a run.
InitFind ==
    /\ meta_path = NativeFinders
    /\ sys_path_importer_cache = Dirs
    /\ path_hooks = << >>
    /\ path_importer_cache = << >>
    /\ preprocessed_files = << >>
    /\ PPyLoader_config = EmptyConfig
    /\ PPyPathFinder_config = EmptyConfig
    /\ done = FALSE
    /\ linecache_getlines = "getlines"
    /\ disk = [p \in Paths |-> <<"m">>]
    /\ cwd = "app"
    /\ ret = [op |-> "init"]
    /\ installs = 0
    /\ last_config = EmptyConfig
    /\ native_resp \in [OtherFinders -> Responses]
    /\ search_path \in SearchPaths
    /\ loaded = {}
    /\ loaded_ok = {}
    /\ requested = {}
    /\ threads = Idle

NextFind ==
    \/ \E config \in Configs : install(config)
    \/ PPyPathFinder_find_spec
    \/ \E path \in Paths : get_data(path)
    \/ \E path \in Paths : WriteFile(path, <<"m">>)
    \/ \E path \in Paths : RemoveFile(path)

SpecFind == InitFind /\ [][NextFind]_vars

\* ------------------------------------------------ the uncaught-error handler
\* Files of any content are loaded and errors of any shape reach the handler.
InitExc ==
    /\ meta_path = NativeFinders
    /\ sys_path_importer_cache = Dirs
    /\ path_hooks = << >>
    /\ path_importer_cache = << >>
    /\ preprocessed_files = << >>
    /\ PPyLoader_config = EmptyConfig
    /\ PPyPathFinder_config = EmptyConfig
    /\ done = FALSE
    /\ linecache_getlines = "getlines"
    /\ disk \in [Paths -> RawTexts]
    /\ cwd = "app"
    /\ ret = [op |-> "init"]
    /\ installs = 0
    /\ last_config = EmptyConfig
    /\ native_resp = [f \in OtherFinders |-> "none"]
    /\ search_path = << >>
    /\ loaded = {}
    /\ loaded_ok = {}
    /\ requested = {}
    /\ threads = Idle

NextExc ==
    \/ \E path \in Paths : get_data(path)
    \/ \E module \in {None, EntryFile}, e \in Errors, tb \in Tracebacks :
           handle_exc(module, e, tb)

SpecExc == InitExc /\ [][NextExc]_vars

\* ------------------------------------------- install called from threads
\* install has no lock: a thread can be switched out between any two of its
\* statements.  pc names the line of hooks.py the thread executes next.
At(t, line) == threads[t].pc = line
Goto(t, line) == threads' = [threads EXCEPT ![t].pc = line]

\* what no statement of install touches
Untouched == << preprocessed_files, disk, cwd, native_resp, search_path,
                loaded, loaded_ok, requested >>

\* thread t calls install(config)
install_call(t, config) ==
    /\ At(t, "idle")
    /\ installs < MaxInstalls
    /\ installs' = installs + 1
    /\ last_config' = config
    /\ threads' = [threads EXCEPT ![t] = [pc |-> "151", config |-> config]]
    /\ UNCHANGED << meta_path, sys_path_importer_cache, path_hooks,
                    path_importer_cache, PPyLoader_config, PPyPathFinder_config,
                    done, linecache_getlines, ret, Untouched >>

\* PPyLoader.set_config(config)
install_151(t) ==
    /\ At(t, "151")
    /\ PPyLoader_config' = set_config(threads[t].config)
    /\ Goto(t, "152")
    /\ UNCHANGED << meta_path, sys_path_importer_cache, path_hooks,
                    path_importer_cache, PPyPathFinder_config, done,
                    linecache_getlines, ret, installs, last_config, Untouched >>

\* PPyPathFinder.set_config(config)
install_152(t) ==
    /\ At(t, "152")
    /\ PPyPathFinder_config' = set_config(threads[t].config)
    /\ Goto(t, "154")
    /\ UNCHANGED << meta_path, sys_path_importer_cache, path_hooks,
                    path_importer_cache, PPyLoader_config, done,
                    linecache_getlines, ret, installs, last_config, Untouched >>

\* if done: return
install_154(t) ==
    /\ At(t, "154")
    /\ IF done
       THEN /\ Goto(t, "idle")
            /\ ret' = [op |-> "install", config |-> threads[t].config]
       ELSE /\ Goto(t, "158")
            /\ UNCHANGED ret
    /\ UNCHANGED << meta_path, sys_path_importer_cache, path_hooks,
                    path_importer_cache, PPyLoader_config, PPyPathFinder_config,
                    done, linecache_getlines, installs, last_config, Untouched >>

\* sys.meta_path.insert(0, PPyPathFinder)
install_158(t) ==
    /\ At(t, "158")
    /\ meta_path' = << "PPyPathFinder" >> \o meta_path
    /\ Goto(t, "159")
    /\ UNCHANGED << sys_path_importer_cache, path_hooks, path_importer_cache,
                    PPyLoader_config, PPyPathFinder_config, done,
                    linecache_getlines, ret, installs, last_config, Untouched >>

\* _path_hooks.append(FileFinder.path_hook(LOADER_DETAILS))
install_159(t) ==
    /\ At(t, "159")
    /\ path_hooks' = Append(path_hooks, PPyHook)
    /\ Goto(t, "161")
    /\ UNCHANGED << meta_path, sys_path_importer_cache, path_importer_cache,
                    PPyLoader_config, PPyPathFinder_config, done,
                    linecache_getlines, ret, installs, last_config, Untouched >>

\* sys.path_importer_cache.clear()
install_161(t) ==
    /\ At(t, "161")
    /\ sys_path_importer_cache' = {}
    /\ Goto(t, "162")
    /\ UNCHANGED << meta_path, path_hooks, path_importer_cache,
                    PPyLoader_config, PPyPathFinder_config, done,
                    linecache_getlines, ret, installs, last_config, Untouched >>

\* invalidate_caches()
install_162(t) ==
    /\ At(t, "162")
    /\ path_importer_cache' = PPyPathFinder_invalidate_caches(path_importer_cache)
    /\ Goto(t, "164")
    /\ UNCHANGED << meta_path, sys_path_importer_cache, path_hooks,
                    PPyLoader_config, PPyPathFinder_config, done,
                    linecache_getlines, ret, installs, last_config, Untouched >>

\* linecache.getlines = patched_getlines
install_164(t) ==
    /\ At(t, "164")
    /\ linecache_getlines' = "patched_getlines"
    /\ Goto(t, "165")
    /\ UNCHANGED << meta_path, sys_path_importer_cache, path_hooks,
                    path_importer_cache, PPyLoader_config, PPyPathFinder_config,
                    done, ret, installs, last_config, Untouched >>

\* done = True, and install returns
install_165(t) ==
    /\ At(t, "165")
    /\ done' = TRUE
    /\ Goto(t, "idle")
    /\ ret' = [op |-> "install", config |-> threads[t].config]
    /\ UNCHANGED << meta_path, sys_path_importer_cache, path_hooks,
                    path_importer_cache, PPyLoader_config, PPyPathFinder_config,
                    linecache_getlines, installs, last_config, Untouched >>

NextThreads ==
    \/ \E t \in Threads, config \in Configs : install_call(t, config)
    \/ \E t \in Threads : install_151(t)
    \/ \E t \in Threads : install_152(t)
    \/ \E t \in Threads : install_154(t)
    \/ \E t \in Threads : install_158(t)
    \/ \E t \in Threads : install_159(t)
    \/ \E t \in Threads : install_161(t)
    \/ \E t \in Threads : install_162(t)
    \/ \E t \in Threads : install_164(t)
    \/ \E t \in Threads : install_165(t)
    \/ \E path \in Entries : path_importer_cache_lookup(path)

SpecThreads == Init /\ [][NextThreads]_vars

\* ================================================================== claims

\* C1: after N >= 1 sequential install calls, whatever their configurations,
\* sys.meta_path holds exactly one PPyPathFinder and _path_hooks exactly one
\* hook.
IdempotentInstallation ==
    installs >= 1 =>
        /\ Count(meta_path, "PPyPathFinder") = 1
        /\ Len(path_hooks) = 1

IdempotentInstallationWitness ==
    /\ installs >= 2
    /\ ret.op = "install"
    /\ Count(meta_path, "PPyPathFinder") = 1
    /\ Len(path_hooks) = 1

\* C2: from the second install call on, PPyPathFinder._config and
\* PPyLoader._config are both the configuration of the latest call, a lookup
\* and a load made afterwards read that configuration, and there is still one
\* finder entry and one path hook.
ConfigRefresh ==
    installs >= 2 =>
        /\ PPyPathFinder_config = last_config
        /\ PPyLoader_config = last_config
        /\ ret.op = "find_spec" =>
               ret.prefer_python = ConfigGet(last_config, "prefer_python")
        /\ ret.op = "get_data" => ret.config = last_config
        /\ Count(meta_path, "PPyPathFinder") = 1
        /\ Len(path_hooks) = 1

ConfigRefreshWitness ==
    /\ installs >= 2
    /\ ret.op = "find_spec"
    /\ ret.prefer_python
    /\ PPyLoader_config = [prefer_python |-> TRUE]
    /\ preprocessed_files # << >>

\* the native finders that are asked during a fallback search and answer with
\* a unit that has a loader: no finder ahead of them raises out of the search
Answers(i) ==
    /\ meta_path[i] # "PPyPathFinder"
    /\ native_resp[meta_path[i]] \in {"spec", "legacy_loader"}
    /\ \A j \in 1..(i - 1) :
           meta_path[j] # "PPyPathFinder" =>
               native_resp[meta_path[j]] \notin {"error", "legacy_missing"}

SpecialFileOnPath ==
    /\ done
    /\ \E i \in 1..Len(search_path) :
           search_path[i] \in Dirs /\ FileOf(search_path[i]) \in DOMAIN disk

\* C3: with prefer_python true, when a native finder answers the lookup with a
\* unit that has a loader, find_spec returns the unit of the first such finder
\* and never a special-extension unit, also when the special-extension file is
\* on the search path.
FallbackPrecedence ==
    (/\ ret.op = "find_spec"
     /\ ConfigGet(PPyPathFinder_config, "prefer_python")
     /\ \E i \in 1..Len(meta_path) : Answers(i)) =>
        LET first == CHOOSE i \in 1..Len(meta_path) :
                         Answers(i) /\ \A j \in 1..(i - 1) : ~Answers(j) IN
        /\ ~ret.raised
        /\ ret.spec = NativeSpec(meta_path[first], TRUE)
        /\ ret.spec.kind # "ppy"

FallbackPrecedenceWitness ==
    /\ ret.op = "find_spec"
    /\ ConfigGet(PPyPathFinder_config, "prefer_python")
    /\ \E i \in 1..Len(meta_path) : Answers(i)
    /\ SpecialFileOnPath
    /\ ret.spec.kind = "native"

\* C4: every load that returns leaves the entry of its path equal to the
\* transform of the content the file has at that load, and returns it, also
\* when an earlier load of other content left an entry.
NoStaleReuse ==
    (ret.op = "get_data" /\ ~ret.raised) =>
        /\ ret.path \in DOMAIN preprocessed_files
        /\ preprocessed_files[ret.path] =
               preprocess(disk, ret.path, PPyLoader_config).text
        /\ ret.data = encode(preprocessed_files[ret.path])

NoStaleReuseWitness ==
    /\ ret.op = "get_data"
    /\ ~ret.raised
    /\ ret.path \in DOMAIN ret.before
    /\ ret.before[ret.path] # preprocessed_files[ret.path]
    /\ PPyLoader_config = EmptyConfig

\* the line number of e names a line of the transformed text of its file
LineExists(cache, e) ==
    /\ e.filename \in DOMAIN cache
    /\ e.has_lineno
    /\ e.lineno >= 1
    /\ e.lineno <= Len(splitlines(cache[e.filename]))

\* C5: when the handler is given a syntax error whose file has an entry and
\* whose line number names a line of that entry, the text of the error becomes
\* that line of the transformed text.
TransformBeforeDiagnose ==
    (/\ ret.op = "handle_exc"
     /\ ret.e.syntax
     /\ LineExists(preprocessed_files, ret.e)) =>
        /\ ~ret.raised
        /\ ret.text = splitlines(preprocessed_files[ret.e.filename])[ret.e.lineno]

TransformBeforeDiagnoseWitness ==
    /\ ret.op = "handle_exc"
    /\ ret.e.syntax
    /\ LineExists(preprocessed_files, ret.e)
    /\ ret.e.lineno = 2
    /\ ret.text = <<"b">>
    /\ splitlines(disk[ret.e.filename])[2] = <<"m">>

\* the call chain entry_module -> loader_internal_frame -> entry_module_function
SyntheticChain == << EntryFile, InternalFile, EntryFile >>

\* C6 as stated: for the chain entry_module, loader_internal_frame,
\* entry_module_function the printed trace omits the loader_internal_frame and
\* starts at entry_module.
TraceOmitsInternalFrame ==
    (/\ ret.op = "handle_exc"
     /\ ret.printed
     /\ ret.module = EntryFile
     /\ ret.tb = SyntheticChain) =>
        /\ ret.trace # << >>
        /\ ret.trace[1] = EntryFile
        /\ \A i \in 1..Len(ret.trace) : ret.trace[i] # InternalFile

\* C6: for the chain entry_module, loader_internal_frame,
\* entry_module_function the printed trace starts at entry_module and is the
\* whole chain, the loader_internal_frame included.
TraceKeepsInnerFrames ==
    (/\ ret.op = "handle_exc"
     /\ ret.printed
     /\ ret.module = EntryFile
     /\ ret.tb = SyntheticChain) =>
        /\ ret.trace = SyntheticChain
        /\ ret.trace[1] = EntryFile
        /\ ret.trace[2] = InternalFile

TraceKeepsInnerFramesWitness ==
    /\ ret.op = "handle_exc"
    /\ ret.printed
    /\ ret.module = EntryFile
    /\ ret.tb = SyntheticChain
    /\ Len(ret.trace) = 3

\* C7: patched_getlines returns the lines of the entry of the path when there
\* is one, the newest text after a reload, and otherwise what the native line
\* reader returns for the path.
ShimLookup ==
    ret.op = "patched_getlines" =>
        IF ret.path \in DOMAIN preprocessed_files
        THEN ret.lines = splitlines(preprocessed_files[ret.path])
        ELSE ret.lines = getlines(disk, ret.path)

ShimLookupWitness ==
    /\ ret.op = "patched_getlines"
    /\ ret.path \in DOMAIN preprocessed_files
    /\ preprocessed_files[ret.path] = << >>
    /\ ret.lines = << >>
    /\ getlines(disk, ret.path) # << >>

\* C8 as stated: after invalidate_caches returns no memoized directory finder,
\* positive or negative, is left in _path_importer_cache.
InvalidateClearsResolverCache ==
    ret.op = "invalidate_caches" => DOMAIN path_importer_cache = {}

\* C8: invalidate_caches leaves every memoized directory finder, positive or
\* negative, in _path_importer_cache under its key and only passes the
\* invalidation on to the finders that have the method; the lookup of a
\* memoized directory made next does not consult the path hooks.
InvalidateKeepsResolverCache ==
    [][ /\ ret'.op = "invalidate_caches" =>
            /\ DOMAIN path_importer_cache' = DOMAIN path_importer_cache
            /\ \A k \in DOMAIN path_importer_cache :
                   /\ path_importer_cache'[k].kind = path_importer_cache[k].kind
                   /\ path_importer_cache'[k].path = path_importer_cache[k].path
                   /\ ~path_importer_cache'[k].listed
        /\ (/\ ret.op = "invalidate_caches"
            /\ ret'.op = "_path_importer_cache"
            /\ ret'.path \in DOMAIN path_importer_cache) => ~ret'.hooked
      ]_vars

InvalidateKeepsResolverCacheWitness ==
    /\ ret.op = "invalidate_caches"
    /\ \E k \in DOMAIN path_importer_cache : path_importer_cache[k].kind = None
    /\ \E k \in DOMAIN path_importer_cache :
           path_importer_cache[k].kind = "FileFinder"

\* C9: invalidate_caches leaves preprocessed_files, the installation flag, the
\* two configurations, sys.meta_path and the path hooks as they were.
InvalidateFrame ==
    [][ ret'.op = "invalidate_caches" =>
            UNCHANGED << preprocessed_files, done, PPyLoader_config,
                         PPyPathFinder_config, meta_path, path_hooks >> ]_vars

InvalidateFrameWitness ==
    /\ ret.op = "invalidate_caches"
    /\ preprocessed_files # << >>
    /\ done
    /\ path_importer_cache # << >>

\* C10 as stated: a path is a key of preprocessed_files exactly when it was
\* loaded or its lines were requested at least once.
KeyIffLoadedOrRequested ==
    \A p \in Paths :
        p \in DOMAIN preprocessed_files <=> (p \in loaded \/ p \in requested)

\* C10: a path is a key of preprocessed_files exactly when get_data returned
\* for it at least once without the preprocessor raising; a request for its
\* lines creates no entry and neither does a load that raises.
KeyIffLoadedOk ==
    \A p \in Paths : p \in DOMAIN preprocessed_files <=> p \in loaded_ok

KeyIffLoadedOkWitness ==
    \E p \in Paths :
        /\ p \in requested
        /\ p \in loaded
        /\ p \notin DOMAIN preprocessed_files
        /\ ret.op = "patched_getlines"

\* C11: once install has been called, PPyPathFinder is the first element of
\* sys.meta_path, ahead of every finder registered before, in their order;
\* later install calls neither move it nor put another finder ahead of it.
FrontOfChain ==
    installs >= 1 =>
        /\ meta_path[1] = "PPyPathFinder"
        /\ Tail(meta_path) = NativeFinders

FrontOfChainWitness ==
    /\ installs >= 2
    /\ ret.op = "install"
    /\ meta_path[1] = "PPyPathFinder"
    /\ Len(meta_path) = Len(NativeFinders) + 1

\* sys.meta_path without PPyPathFinder
RECURSIVE Others(_)
Others(finders) ==
    IF finders = << >> THEN << >>
    ELSE IF Head(finders) = "PPyPathFinder" THEN Others(Tail(finders))
         ELSE << Head(finders) >> \o Others(Tail(finders))

\* the finder answers the fallback search with a unit that has a loader
HasLoader(finder) == native_resp[finder] \in {"spec", "legacy_loader"}

\* C12: find_spec_fallback never asks PPyPathFinder; it asks the other
\* finders in the order of sys.meta_path and stops at the first whose unit has
\* a loader, whose unit it returns; a unit without a loader is never returned,
\* and when the chain is exhausted the result is None.
FallbackChainOrder ==
    (ret.op = "find_spec" /\ ret.prefer_python) =>
        LET fb == ret.fallback
            n  == Len(fb.asked) IN
        /\ \A i \in 1..n : fb.asked[i] # "PPyPathFinder"
        /\ fb.asked = SubSeq(Others(meta_path), 1, n)
        /\ \A i \in 1..(n - 1) : ~HasLoader(fb.asked[i])
        /\ ~fb.raised =>
               /\ fb.spec.kind # None =>
                      /\ n >= 1
                      /\ HasLoader(fb.asked[n])
                      /\ fb.spec = NativeSpec(fb.asked[n], TRUE)
               /\ fb.spec.kind = None =>
                      /\ fb.asked = Others(meta_path)
                      /\ \A i \in 1..n : ~HasLoader(fb.asked[i])

FallbackChainOrderWitness ==
    /\ ret.op = "find_spec"
    /\ ret.prefer_python
    /\ done
    /\ native_resp["BuiltinImporter"] = "spec_noloader"
    /\ native_resp["PathFinder"] = "spec"
    /\ ret.fallback.asked = NativeFinders
    /\ ret.spec = NativeSpec("PathFinder", TRUE)

\* C13 as stated: a finder without find_spec never surfaces as an error of
\* the fallback search: its find_module is used and adapted and, when it
\* finds nothing, the next finder is asked; only an exception of another kind
\* comes out of the search.
LegacyNeverSurfaces ==
    (ret.op = "find_spec" /\ ret.prefer_python) =>
        LET fb == ret.fallback
            n  == Len(fb.asked) IN
        /\ fb.raised =>
               /\ fb.exc = "ImportError"
               /\ native_resp[fb.asked[n]] = "error"
        /\ \A i \in 1..n :
               native_resp[fb.asked[i]] \in {"legacy_none", "legacy_missing"} =>
                   \/ i < n
                   \/ (i = n /\ ~fb.raised /\ fb.asked = Others(meta_path))
        /\ (n >= 1 /\ native_resp[fb.asked[n]] = "legacy_loader") =>
               (~fb.raised /\ fb.spec = NativeSpec(fb.asked[n], TRUE))

\* C14: a lookup of the empty path while there is no working directory
\* returns None and leaves _path_importer_cache as it was, the empty string
\* never being a key; a lookup of the empty path while there is a working
\* directory returns what the cache then holds for that directory.
CwdFailureNotCached ==
    [][ /\ "" \notin DOMAIN path_importer_cache'
        /\ (ret'.op = "_path_importer_cache" /\ ret'.path = "") =>
               IF cwd = NoCwd
               THEN /\ ret'.finder = NoFinder
                    /\ ~ret'.hooked
                    /\ UNCHANGED path_importer_cache
               ELSE /\ cwd \in DOMAIN path_importer_cache'
                    /\ ret'.finder = path_importer_cache'[cwd]
                    /\ (cwd \notin DOMAIN path_importer_cache /\ done) =>
                           ret'.finder = FileFinder(cwd)
      ]_vars

CwdFailureNotCachedWitness ==
    /\ ret.op = "_path_importer_cache"
    /\ ret.path = ""
    /\ cwd = NoCwd
    /\ ret.finder = NoFinder
    /\ done
    /\ path_importer_cache = << >>

\* what the path hooks give for a path
HooksGive(path) ==
    IF path_hooks = << >> \/ path \notin Dirs THEN NoFinder ELSE FileFinder(path)

\* C15: for a non-empty path the path hooks are consulted on the first lookup
\* only; what is stored is the finder of the first hook that does not decline,
\* or None when every hook declines or none is registered; a later lookup
\* returns the stored value without consulting the hooks, and no stored value
\* is ever dropped or replaced.
ResolverCacheMemoized ==
    [][ /\ (ret'.op = "_path_importer_cache" /\ ret'.path # "") =>
               IF ret'.path \in DOMAIN path_importer_cache
               THEN /\ ~ret'.hooked
                    /\ ret'.finder = path_importer_cache[ret'.path]
                    /\ UNCHANGED path_importer_cache
               ELSE /\ ret'.hooked
                    /\ ret'.finder = HooksGive(ret'.path)
                    /\ path_importer_cache' =
                           DictSet(path_importer_cache, ret'.path, ret'.finder)
        /\ \A k \in DOMAIN path_importer_cache :
               /\ k \in DOMAIN path_importer_cache'
               /\ path_importer_cache'[k].kind = path_importer_cache[k].kind
               /\ path_importer_cache'[k].path = path_importer_cache[k].path
      ]_vars

ResolverCacheMemoizedWitness ==
    /\ ret.op = "_path_importer_cache"
    /\ ret.path = "app"
    /\ ~ret.hooked
    /\ done
    /\ ret.finder = NoFinder

\* C16 as stated: after the first install call the lookup of a directory,
\* also of one looked up before that call, is served by the path hook the call
\* registered and not by a result memoized before it.
InstallMakesHookEffective ==
    (/\ ret.op = "_path_importer_cache"
     /\ done
     /\ ret.path \in Dirs) => ret.finder.kind = "FileFinder"

\* C17: when the preprocessor raises during a load, the load raises that
\* exception and preprocessed_files is as it was before the load: no entry is
\* made for the path and an entry of an earlier load of it is kept.
PreprocessorFailure ==
    (ret.op = "get_data" /\ ret.raised) =>
        /\ preprocess(disk, ret.path, PPyLoader_config).raised
        /\ ret.exc = preprocess(disk, ret.path, PPyLoader_config).exc
        /\ preprocessed_files = ret.before

PreprocessorFailureWitness ==
    /\ ret.op = "get_data"
    /\ ret.raised
    /\ ret.exc = "PreprocessorError"
    /\ ret.path \in DOMAIN preprocessed_files
    /\ preprocessed_files[ret.path] = <<"b">>

\* the frames of tb that belong to the entry module
EntryFrames(tb, module) == { i \in 1..Len(tb) : tb[i] = module }

\* C18: the printed trace is the suffix of the trace that begins at the first
\* frame of the entry module's file; it is empty when no frame belongs to the
\* entry module and the whole trace when no entry module was given.
FrontOnlyTrimming ==
    (ret.op = "handle_exc" /\ ret.printed) =>
        IF ret.module = None THEN ret.trace = ret.tb
        ELSE IF EntryFrames(ret.tb, ret.module) = {} THEN ret.trace = << >>
        ELSE LET first == CHOOSE i \in EntryFrames(ret.tb, ret.module) :
                              \A j \in EntryFrames(ret.tb, ret.module) : i <= j
             IN ret.trace = SubSeq(ret.tb, first, Len(ret.tb))

FrontOnlyTrimmingWitness ==
    /\ ret.op = "handle_exc"
    /\ ret.printed
    /\ ret.module = EntryFile
    /\ ret.tb = << InternalFile, EntryFile, InternalFile >>
    /\ ret.trace = << EntryFile, InternalFile >>

\* C19 as stated: also when install calls of several threads interleave
\* statement by statement, the wiring is done at most once: no state has two
\* PPyPathFinder entries on sys.meta_path or two path hooks.
WiringAtMostOnce ==
    /\ Count(meta_path, "PPyPathFinder") <= 1
    /\ Len(path_hooks) <= 1

\* C20 as stated: for a syntax error whose file has an entry, whatever its
\* line number, the handler does not raise in the replacement of the text and
\* goes on to print the error.
HandlerCompletes ==
    (/\ ret.op = "handle_exc"
     /\ ret.e.syntax
     /\ ret.e.filename \in DOMAIN preprocessed_files) =>
        (~ret.raised /\ ret.printed)
====
